---- MODULE Spec2Model ----
(***************************************************************************)
(* Model of src/app/catalog/page.tsx: the CatalogPage component.           *)
(*                                                                         *)
(* The component keeps six pieces of React state, runs one effect that     *)
(* fetches the product list on mount and one effect that filters and sorts *)
(* the list whenever the list or a filter parameter changes, and renders   *)
(* the filtered list.  JavaScript arrays are objects with identity: the    *)
(* model keeps them in a heap and the state holds references, because the  *)
(* effect sorts in place and React compares state values by identity.      *)
(*                                                                         *)
(* Strings that the code inspects character by character (toLowerCase,     *)
(* includes, localeCompare) are sequences of one-character strings.        *)
(***************************************************************************)
EXTENDS Integers, Sequences, FiniteSets, TLC

\* Longest product list the endpoint returns in the model.
MaxLen == 2

\* Cap on the request counter (the code issues one request; the cap only
\* keeps the counter finite).
MaxRequests == 2

(***************************************************************************)
(* JavaScript string operations                                            *)
(***************************************************************************)
UpperChars ==
  <<"A","B","C","D","E","F","G","H","I","J","K","L","M",
    "N","O","P","Q","R","S","T","U","V","W","X","Y","Z">>

LowerChars ==
  <<"a","b","c","d","e","f","g","h","i","j","k","l","m",
    "n","o","p","q","r","s","t","u","v","w","x","y","z">>

toLowerCaseChar(c) ==
  IF \E i \in 1..26 : UpperChars[i] = c
  THEN LowerChars[CHOOSE i \in 1..26 : UpperChars[i] = c]
  ELSE c

\* String.prototype.toLowerCase
toLowerCase(s) == [i \in 1..Len(s) |-> toLowerCaseChar(s[i])]

\* String.prototype.includes: t occurs in s as a contiguous substring
includes(s, t) ==
  \E i \in 0..(Len(s) - Len(t)) : SubSeq(s, i + 1, i + Len(t)) = t

\* Collation order of the characters the catalog uses: the space sorts
\* before the letters, letters sort alphabetically whatever their case.
CollationChars == <<" ">> \o LowerChars

PrimaryWeight(c) ==
  CHOOSE i \in 1..Len(CollationChars) : CollationChars[i] = toLowerCaseChar(c)

\* At equal letters the lower-case form sorts first.
TertiaryWeight(c) == IF c = toLowerCaseChar(c) THEN 0 ELSE 1

\* lexicographic comparison of two sequences of weights: -1, 0 or 1
CompareWeights(wa, wb) ==
  LET n == IF Len(wa) < Len(wb) THEN Len(wa) ELSE Len(wb)
      D == {i \in 1..n : wa[i] # wb[i]}
  IN IF D # {}
     THEN LET d == CHOOSE i \in D : \A j \in D : i <= j
          IN IF wa[d] < wb[d] THEN -1 ELSE 1
     ELSE IF Len(wa) < Len(wb) THEN -1
     ELSE IF Len(wa) > Len(wb) THEN 1
     ELSE 0

PrimaryWeights(s) == [i \in 1..Len(s) |-> PrimaryWeight(s[i])]

TertiaryWeights(s) == [i \in 1..Len(s) |-> TertiaryWeight(s[i])]

\* String.prototype.localeCompare (default locale, letters and spaces)
localeCompare(a, b) ==
  LET p == CompareWeights(PrimaryWeights(a), PrimaryWeights(b))
  IN IF p # 0 THEN p
     ELSE CompareWeights(TertiaryWeights(a), TertiaryWeights(b))

(***************************************************************************)
(* The category shortcuts and the default filter values                    *)
(***************************************************************************)
ALL == <<"a","l","l">>
Rings == <<"R","i","n","g","s">>
Necklaces == <<"N","e","c","k","l","a","c","e","s">>
Earrings == <<"E","a","r","r","i","n","g","s">>
Bracelets == <<"B","r","a","c","e","l","e","t","s">>
Pendants == <<"P","e","n","d","a","n","t","s">>

\* values of the `categories` table
categories == {ALL, Rings, Necklaces, Earrings, Bracelets, Pendants}

EmptyString == <<>>

(***************************************************************************)
(* Product records the endpoint may return                                 *)
(***************************************************************************)
GoldRing ==
  [id |-> 1, name |-> <<"G","o","l","d"," ","R","i","n","g">>,
   category |-> Rings, metal |-> <<"G","o","l","d">>,
   rating |-> 4, reviews |-> 10,
   description |-> <<"c","l","a","s","s","i","c">>]

SilverBand ==
  [id |-> 2, name |-> <<"S","i","l","v","e","r"," ","B","a","n","d">>,
   category |-> Rings, metal |-> <<"S","i","l","v","e","r">>,
   rating |-> 5, reviews |-> 2,
   description |-> <<"p","l","a","i","n">>]

GoldChain ==
  [id |-> 3, name |-> <<"g","o","l","d"," ","c","h","a","i","n">>,
   category |-> Necklaces, metal |-> <<"G","O","L","D">>,
   rating |-> 4, reviews |-> 2,
   description |-> <<"S","p","R","I","N","G"," ","c","l","a","s","p">>]

Products == {GoldRing, SilverBand, GoldChain}

RECURSIVE ListsOfLen(_)
ListsOfLen(n) ==
  IF n = 0 THEN {<<>>}
  ELSE {Append(l, p) : l \in ListsOfLen(n - 1), p \in Products}

\* every JSON array of at most MaxLen product records
ProductLists == UNION {ListsOfLen(n) : n \in 0..MaxLen}

(***************************************************************************)
(* The filter/sort pipeline (second useEffect)                             *)
(***************************************************************************)
\* the search filter with the description clause forgotten
MatchesSearchNoDescription(product, term) ==
  \/ includes(toLowerCase(product.name), toLowerCase(term))
  \/ includes(toLowerCase(product.category), toLowerCase(term))

\* predicate of the search filter
MatchesSearch(product, term) ==
  \/ includes(toLowerCase(product.name), toLowerCase(term))
  \/ includes(toLowerCase(product.category), toLowerCase(term))
  \/ includes(toLowerCase(product.description), toLowerCase(term))

\* the category filter comparing lower-cased values, as the metal filter does
MatchesCategoryIgnoringCase(product, category) ==
  toLowerCase(product.category) = toLowerCase(category)

\* predicate of the category filter
MatchesCategory(product, category) == product.category = category

\* predicate of the metal filter
MatchesMetal(product, metal) ==
  toLowerCase(product.metal) = toLowerCase(metal)

\* the category guard testing a sentinel spelled "All"
CategoryActiveWrongSentinel(category) == category # <<"A","l","l">>

\* the guards of the three filter steps
SearchActive(term) == term # EmptyString
CategoryActive(category) == category # ALL
MetalActive(metal) == metal # ALL

\* the comparator with the operands of the two subtractions exchanged
compareAscending(a, b, key) ==
  CASE key = "rating" -> a.rating - b.rating
    [] key = "reviews" -> a.reviews - b.reviews
    [] OTHER -> localeCompare(a.name, b.name)

\* the comparator passed to Array.prototype.sort
compare(a, b, key) ==
  CASE key = "rating" -> b.rating - a.rating
    [] key = "reviews" -> b.reviews - a.reviews
    [] OTHER -> localeCompare(a.name, b.name)

\* Array.prototype.sort is stable: insertion from the left places an element
\* after the elements that compare equal to it.
RECURSIVE Insert(_, _, _)
Insert(sorted, x, key) ==
  IF sorted = <<>> THEN <<x>>
  ELSE LET last == sorted[Len(sorted)]
           front == SubSeq(sorted, 1, Len(sorted) - 1)
       IN IF compare(last, x, key) > 0
          THEN Append(Insert(front, x, key), last)
          ELSE Append(sorted, x)

RECURSIVE sort(_, _)
sort(arr, key) ==
  IF arr = <<>> THEN <<>>
  ELSE Insert(sort(SubSeq(arr, 1, Len(arr) - 1), key), arr[Len(arr)], key)

\* the three filter steps, in the order of the code
Filtered(items, term, category, metal) ==
  LET s == IF SearchActive(term)
           THEN SelectSeq(items, LAMBDA p : MatchesSearch(p, term))
           ELSE items
      c == IF CategoryActive(category)
           THEN SelectSeq(s, LAMBDA p : MatchesCategory(p, category))
           ELSE s
  IN IF MetalActive(metal)
     THEN SelectSeq(c, LAMBDA p : MatchesMetal(p, metal))
     ELSE c

\* TRUE when some filter step ran, so that `filtered` is a new array and no
\* longer the `products` array itself
FilterRan(term, category, metal) ==
  SearchActive(term) \/ CategoryActive(category) \/ MetalActive(metal)

\* the list the effect hands to setFilteredProducts
compute(items, term, category, metal, key) ==
  sort(Filtered(items, term, category, metal), key)

(***************************************************************************)
(* State                                                                   *)
(***************************************************************************)
VARIABLES
  heap,              \* the arrays and objects alive, by reference
  products,          \* state `products`: a reference
  filteredProducts,  \* state `filteredProducts`: a reference
  searchTerm,        \* state `searchTerm`
  selectedCategory,  \* state `selectedCategory`
  selectedMetal,     \* state `selectedMetal`
  sortBy,            \* state `sortBy`
  queue,             \* state updates enqueued and not yet rendered
  pendingEffects,    \* effects scheduled by the last render, not yet run
  rendered,          \* the product cards in the document, in order
  requests,          \* number of requests issued to /api/admin/products
  fetchState,        \* "idle", "inflight" or "settled"
  response,          \* what the request came back with
  crashed            \* a render or an effect threw

vars ==
  <<heap, products, filteredProducts, searchTerm, selectedCategory,
    selectedMetal, sortBy, queue, pendingEffects, rendered, requests,
    fetchState, response, crashed>>

Refs == 1..6

\* a heap cell: a JSON array, or a JSON value that is not an array
ArrayOf(items) == [isArray |-> TRUE, items |-> items]
NotAnArray == [isArray |-> FALSE, items |-> <<>>]
Free == NotAnArray

Content(r) == heap[r].items

\* a queue slot is <<>> (no update) or <<v>> (set the state to v)
NoUpdates ==
  [products |-> <<>>, filteredProducts |-> <<>>, searchTerm |-> <<>>,
   selectedCategory |-> <<>>, selectedMetal |-> <<>>]

Latest(slot, current) == IF slot = <<>> THEN current ELSE slot[1]

\* references reachable from the state values p, f and from the queue q
Live(p, f, q) ==
  {p, f}
    \cup {q.products[i] : i \in 1..Len(q.products)}
    \cup {q.filteredProducts[i] : i \in 1..Len(q.filteredProducts)}

\* the lowest reference outside `used`
Alloc(used) == CHOOSE r \in Refs \ used : \A s \in Refs \ used : r <= s

\* cells that nothing refers to any more are released
Collect(h, live) == [r \in Refs |-> IF r \in live THEN h[r] ELSE Free]

NoResponse == [error |-> FALSE, status |-> 0, body |-> "none", data |-> <<>>]

\* the fetch effect depending on the selected category
FetchEffectDepsWithCategory(p, s, c, m, k) == <<c>>

\* the dependency arrays of the two effects, for the values of products,
\* searchTerm, selectedCategory, selectedMetal and sortBy in a render
FetchEffectDeps(p, s, c, m, k) == <<>>

FilterEffectDeps(p, s, c, m, k) == <<p, s, c, m, k>>

\* References are renumbered when a render commits: the products array
\* becomes 1 and a distinct filteredProducts array becomes 2.  Identities
\* are compared before the renumbering.
Compact(h, p, f) ==
  [r \in Refs |-> IF r = 1 THEN h[p]
                  ELSE IF r = 2 /\ f # p THEN h[f]
                  ELSE Free]

(***************************************************************************)
(* Init: the component has rendered for the first time; its two effects    *)
(* are scheduled.                                                          *)
(***************************************************************************)
Init ==
  /\ heap = [r \in Refs |-> IF r \in {1, 2} THEN ArrayOf(<<>>) ELSE Free]
  /\ products = 1
  /\ filteredProducts = 2
  /\ searchTerm = EmptyString
  /\ selectedCategory = ALL
  /\ selectedMetal = ALL
  /\ sortBy = "name"
  /\ queue = NoUpdates
  /\ pendingEffects = {"fetch", "filter"}
  /\ rendered = <<>>
  /\ requests = 0
  /\ fetchState = "idle"
  /\ response = NoResponse
  /\ crashed = FALSE

(***************************************************************************)
(* First effect (dependency array []): issue the request                   *)
(***************************************************************************)
FetchEffect ==
  /\ ~crashed
  /\ "fetch" \in pendingEffects
  /\ requests < MaxRequests
  /\ requests' = requests + 1
  /\ fetchState' = "inflight"
  /\ pendingEffects' = pendingEffects \ {"fetch"}
  /\ UNCHANGED <<heap, products, filteredProducts, searchTerm,
                 selectedCategory, selectedMetal, sortBy, queue, rendered,
                 response, crashed>>

\* What the request can come back with.  fetch() rejects only on a network
\* error; response.json() throws when the body is not JSON.
Statuses == {200, 500}

Responses ==
  {[error |-> TRUE, status |-> 0, body |-> "none", data |-> <<>>]}
    \cup {[error |-> FALSE, status |-> s, body |-> b, data |-> <<>>] :
            s \in Statuses, b \in {"malformed", "object"}}
    \cup {[error |-> FALSE, status |-> s, body |-> "array", data |-> d] :
            s \in Statuses, d \in ProductLists}

\* fetch() rejected or response.json() threw
Throws(resp) == resp.error \/ resp.body = "malformed"

\* the try block runs to its end: setProducts(data); setFilteredProducts(data)
FetchThen(resp) ==
  /\ ~crashed
  /\ fetchState = "inflight"
  /\ ~Throws(resp)
  /\ response' = resp
  /\ fetchState' = "settled"
  /\ LET data == Alloc(Live(products, filteredProducts, queue))
         cell == IF resp.body = "array" THEN ArrayOf(resp.data) ELSE NotAnArray
     IN /\ queue' = [queue EXCEPT !.products = <<data>>,
                                  !.filteredProducts = <<data>>]
        /\ heap' = Collect([heap EXCEPT ![data] = cell],
                           Live(products, filteredProducts, queue'))
  /\ UNCHANGED <<products, filteredProducts, searchTerm, selectedCategory,
                 selectedMetal, sortBy, pendingEffects, rendered, requests,
                 crashed>>

\* the catch block: setProducts([]); setFilteredProducts([])
FetchCatch(resp) ==
  /\ ~crashed
  /\ fetchState = "inflight"
  /\ Throws(resp)
  /\ response' = resp
  /\ fetchState' = "settled"
  /\ LET a == Alloc(Live(products, filteredProducts, queue))
         b == Alloc(Live(products, filteredProducts, queue) \cup {a})
     IN /\ queue' = [queue EXCEPT !.products = <<a>>,
                                  !.filteredProducts = <<b>>]
        /\ heap' = Collect([heap EXCEPT ![a] = ArrayOf(<<>>),
                                        ![b] = ArrayOf(<<>>)],
                           Live(products, filteredProducts, queue'))
  /\ UNCHANGED <<products, filteredProducts, searchTerm, selectedCategory,
                 selectedMetal, sortBy, pendingEffects, rendered, requests,
                 crashed>>

(***************************************************************************)
(* Second effect: filter, sort, setFilteredProducts(filtered)              *)
(***************************************************************************)
FilterEffect ==
  /\ ~crashed
  /\ pendingEffects = {"filter"}
  /\ pendingEffects' = {}
  /\ IF ~heap[products].isArray
     THEN \* products.filter / products.sort is not a function
          /\ crashed' = TRUE
          /\ rendered' = <<>>
          /\ UNCHANGED <<heap, queue>>
     ELSE /\ UNCHANGED <<crashed, rendered>>
          /\ IF FilterRan(searchTerm, selectedCategory, selectedMetal)
             THEN \* filter() made a new array; sort() sorts that one
                  LET filtered == Alloc(Live(products, filteredProducts, queue))
                      result == compute(Content(products), searchTerm,
                                        selectedCategory, selectedMetal, sortBy)
                  IN /\ queue' = [queue EXCEPT !.filteredProducts = <<filtered>>]
                     /\ heap' = Collect([heap EXCEPT ![filtered] = ArrayOf(result)],
                                        Live(products, filteredProducts, queue'))
             ELSE \* filtered is the products array itself, sorted in place
                  LET result == compute(Content(products), searchTerm,
                                        selectedCategory, selectedMetal, sortBy)
                  IN /\ queue' = [queue EXCEPT !.filteredProducts = <<products>>]
                     /\ heap' = Collect([heap EXCEPT ![products] = ArrayOf(result)],
                                        Live(products, filteredProducts, queue'))
  /\ UNCHANGED <<products, filteredProducts, searchTerm, selectedCategory,
                 selectedMetal, sortBy, requests, fetchState, response>>

(***************************************************************************)
(* User controls                                                           *)
(***************************************************************************)
\* onClick of a category shortcut: setSelectedCategory(category.value)
CategoryClick(category) ==
  /\ ~crashed
  /\ queue' = [queue EXCEPT !.selectedCategory = <<category>>]
  /\ UNCHANGED <<heap, products, filteredProducts, searchTerm,
                 selectedCategory, selectedMetal, sortBy, pendingEffects,
                 rendered, requests, fetchState, response, crashed>>

\* the reset handler clearing the metal to "" instead of "all"
ClearAllEmptyMetal ==
  /\ ~crashed
  /\ rendered = <<>>
  /\ queue' = [queue EXCEPT !.searchTerm = <<EmptyString>>,
                            !.selectedCategory = <<ALL>>,
                            !.selectedMetal = <<EmptyString>>]
  /\ UNCHANGED <<heap, products, filteredProducts, searchTerm,
                 selectedCategory, selectedMetal, sortBy, pendingEffects,
                 rendered, requests, fetchState, response, crashed>>

\* onClick of "Clear All Filters"; the button is in the document only when
\* the last render saw filteredProducts.length === 0
ClearAll ==
  /\ ~crashed
  /\ rendered = <<>>
  /\ queue' = [queue EXCEPT !.searchTerm = <<EmptyString>>,
                            !.selectedCategory = <<ALL>>,
                            !.selectedMetal = <<ALL>>]
  /\ UNCHANGED <<heap, products, filteredProducts, searchTerm,
                 selectedCategory, selectedMetal, sortBy, pendingEffects,
                 rendered, requests, fetchState, response, crashed>>

(***************************************************************************)
(* Render: React applies the enqueued updates.  Scheduled effects run       *)
(* before the next render.  When no state value changed identity, the      *)
(* component is not rendered again and no effect is scheduled.             *)
(***************************************************************************)
Render ==
  /\ ~crashed
  /\ pendingEffects = {}
  /\ queue # NoUpdates
  /\ queue' = NoUpdates
  /\ UNCHANGED <<sortBy, requests, fetchState, response>>
  /\ LET p == Latest(queue.products, products)
         f == Latest(queue.filteredProducts, filteredProducts)
         s == Latest(queue.searchTerm, searchTerm)
         c == Latest(queue.selectedCategory, selectedCategory)
         m == Latest(queue.selectedMetal, selectedMetal)
         changed == <<p, f, s, c, m>> #
                      <<products, filteredProducts, searchTerm,
                        selectedCategory, selectedMetal>>
     IN IF ~changed
        THEN UNCHANGED <<heap, products, filteredProducts, searchTerm,
                         selectedCategory, selectedMetal, rendered,
                         pendingEffects, crashed>>
        ELSE IF ~heap[f].isArray
        THEN \* filteredProducts.map is not a function: the render throws
             /\ crashed' = TRUE
             /\ rendered' = <<>>
             /\ heap' = Collect(heap, Live(products, filteredProducts, NoUpdates))
             /\ UNCHANGED <<products, filteredProducts, searchTerm,
                            selectedCategory, selectedMetal, pendingEffects>>
        ELSE /\ products' = 1
             /\ filteredProducts' = (IF f = p THEN 1 ELSE 2)
             /\ searchTerm' = s
             /\ selectedCategory' = c
             /\ selectedMetal' = m
             /\ rendered' = heap[f].items
             /\ heap' = Compact(heap, p, f)
             /\ pendingEffects' =
                  (IF FetchEffectDeps(p, s, c, m, sortBy) #
                        FetchEffectDeps(products, searchTerm, selectedCategory,
                                        selectedMetal, sortBy)
                   THEN {"fetch"} ELSE {})
                    \cup (IF FilterEffectDeps(p, s, c, m, sortBy) #
                               FilterEffectDeps(products, searchTerm,
                                                selectedCategory, selectedMetal,
                                                sortBy)
                          THEN {"filter"} ELSE {})
             /\ UNCHANGED crashed

Next ==
  \/ FetchEffect
  \/ \E resp \in Responses : FetchThen(resp)
  \/ \E resp \in Responses : FetchCatch(resp)
  \/ FilterEffect
  \/ \E category \in categories : CategoryClick(category)
  \/ ClearAll
  \/ Render

Spec == Init /\ [][Next]_vars

(***************************************************************************)
(* The pipeline on its own: the component has rendered with an arbitrary   *)
(* product list and filter state, and the filter effect is scheduled.      *)
(***************************************************************************)
SearchTerms ==
  {EmptyString, <<"r","i","n","g">>, <<"R","I","N","G">>, <<"G","o","l","d">>}

CategoryValues == {ALL, Rings, Necklaces, <<"r","i","n","g","s">>}

MetalValues == {ALL, <<"g","o","l","d">>, <<"S","i","l","v","e","r">>}

SortKeys == {"name", "rating", "reviews", "price"}

InitPipe ==
  /\ \E items \in ProductLists, sameArray \in BOOLEAN :
       /\ heap = [r \in Refs |->
                    IF r = 1 THEN ArrayOf(items)
                    ELSE IF r = 2 /\ ~sameArray THEN ArrayOf(<<>>)
                    ELSE Free]
       /\ products = 1
       /\ filteredProducts = IF sameArray THEN 1 ELSE 2
       /\ rendered = IF sameArray THEN items ELSE <<>>
       /\ response = [error |-> FALSE, status |-> 200, body |-> "array",
                      data |-> items]
  /\ searchTerm \in SearchTerms
  /\ selectedCategory \in CategoryValues
  /\ selectedMetal \in MetalValues
  /\ sortBy \in SortKeys
  /\ queue = NoUpdates
  /\ pendingEffects = {"filter"}
  /\ requests = 1
  /\ fetchState = "settled"
  /\ crashed = FALSE

NextPipe ==
  \/ FilterEffect
  \/ Render

SpecPipe == InitPipe /\ [][NextPipe]_vars

(***************************************************************************)
(* Vocabulary of the properties                                            *)
(***************************************************************************)
\* the list last handed to setFilteredProducts, rendered already or not
Result == Content(Latest(queue.filteredProducts, filteredProducts))

\* the filter effect has run on the current state
Computed == pendingEffects = {} /\ ~crashed

\* nothing is left for React to do
Quiescent == queue = NoUpdates /\ pendingEffects = {} /\ ~crashed

Elements(list) == {list[i] : i \in 1..Len(list)}

Occurrences(list, x) == Cardinality({i \in 1..Len(list) : list[i] = x})

IsPermutation(a, b) ==
  /\ Len(a) = Len(b)
  /\ \A x \in Elements(a) \cup Elements(b) : Occurrences(a, x) = Occurrences(b, x)

\* field contains term as a substring, upper and lower case alike
ContainsIgnoringCase(field, term) ==
  \E off \in 0..Len(field) :
    /\ off + Len(term) <= Len(field)
    /\ \A j \in 1..Len(term) :
         toLowerCaseChar(field[off + j]) = toLowerCaseChar(term[j])

EqualIgnoringCase(a, b) ==
  /\ Len(a) = Len(b)
  /\ \A j \in 1..Len(a) : toLowerCaseChar(a[j]) = toLowerCaseChar(b[j])

HasTerm(product, term) ==
  \/ ContainsIgnoringCase(product.name, term)
  \/ ContainsIgnoringCase(product.category, term)
  \/ ContainsIgnoringCase(product.description, term)

\* the request did not come back with a success status and a JSON array
FetchFailed ==
  /\ fetchState = "settled"
  /\ (response.error \/ response.status # 200 \/ response.body # "array")

NoFilterActive ==
  searchTerm = EmptyString /\ selectedCategory = ALL /\ selectedMetal = ALL

(***************************************************************************)
(* Properties                                                              *)
(***************************************************************************)
\* C1: a recomputation of the filtered list leaves the stored `products`
\* list as it was, in content and in element order, whatever the filter
\* state.
C1_ProductsNotMutated ==
  [][FilterEffect => Content(products)' = Content(products)]_vars

\* C2: once a failed fetch (network error, non-success status, malformed or
\* non-array body) has been processed, the page is up, the stored product
\* list and the filtered list are both the empty list, and one request was
\* issued.
C2_FailedFetchStoresEmpty ==
  (FetchFailed /\ queue = NoUpdates /\ pendingEffects = {}) =>
    /\ ~crashed
    /\ heap[products] = ArrayOf(<<>>)
    /\ heap[filteredProducts] = ArrayOf(<<>>)
    /\ requests = 1

\* C3: the request is issued by the mount effect and never again: once the
\* mount effect has run the number of requests is 1, whatever clicks and
\* recomputations followed.
C3_FetchOnce == requests = (IF "fetch" \in pendingEffects THEN 0 ELSE 1)

C3_Witness ==
  /\ requests = 1
  /\ fetchState = "settled"
  /\ selectedCategory = Pendants
  /\ queue.selectedCategory = <<ALL>>
  /\ pendingEffects = {}
  /\ Content(products) # <<>>
  /\ rendered = <<>>

\* C4 as stated: every product of the result contains searchTerm, case
\* ignored, in name, category or description, and every product of the list
\* that is not in the result contains it in none of them, with any category
\* and metal setting.
C4_SearchExact ==
  Computed =>
    /\ \A p \in Elements(Result) : HasTerm(p, searchTerm)
    /\ \A p \in Elements(Content(products)) \ Elements(Result) :
         ~HasTerm(p, searchTerm)

\* C4 amended: every product of the result contains searchTerm, case
\* ignored, in name, category or description, and every product of the list
\* that is not in the result either contains it in none of them or is
\* removed by the category filter or by the metal filter.
C4_SearchUpToOtherFilters ==
  Computed =>
    /\ \A p \in Elements(Result) : HasTerm(p, searchTerm)
    /\ \A p \in Elements(Content(products)) \ Elements(Result) :
         \/ ~HasTerm(p, searchTerm)
         \/ selectedCategory # ALL /\ p.category # selectedCategory
         \/ selectedMetal # ALL /\ ~EqualIgnoringCase(p.metal, selectedMetal)

C4_Witness ==
  /\ Computed
  /\ searchTerm = <<"G","o","l","d">>
  /\ selectedCategory = ALL
  /\ selectedMetal = ALL
  /\ GoldChain \in Elements(Result)
  /\ SilverBand \in Elements(Content(products)) \ Elements(Result)

\* C5: with a selectedCategory other than "all" every product of the result
\* has exactly that category; with a selectedMetal other than "all" every
\* product of the result has that metal, case ignored; "all" in a dimension
\* removes no product that the other two steps keep.
C5_CategoryAndMetal ==
  Computed =>
    /\ selectedCategory # ALL =>
         \A p \in Elements(Result) : p.category = selectedCategory
    /\ selectedMetal # ALL =>
         \A p \in Elements(Result) : EqualIgnoringCase(p.metal, selectedMetal)
    /\ selectedCategory = ALL =>
         \A p \in Elements(Content(products)) :
           (HasTerm(p, searchTerm)
              /\ (selectedMetal = ALL \/ EqualIgnoringCase(p.metal, selectedMetal)))
             => Occurrences(Result, p) = Occurrences(Content(products), p)
    /\ selectedMetal = ALL =>
         \A p \in Elements(Content(products)) :
           (HasTerm(p, searchTerm)
              /\ (selectedCategory = ALL \/ p.category = selectedCategory))
             => Occurrences(Result, p) = Occurrences(Content(products), p)

C5_Witness ==
  /\ Computed
  /\ selectedCategory = Rings
  /\ selectedMetal = <<"g","o","l","d">>
  /\ searchTerm = EmptyString
  /\ Result = <<GoldRing>>
  /\ GoldChain \in Elements(Content(products))

\* C6: with an empty searchTerm and "all" for category and metal, the list
\* the recomputation produces is a permutation of the product list it
\* started from, for every sortBy.
C6_Permutation ==
  [][(FilterEffect /\ NoFilterActive /\ ~crashed')
       => IsPermutation(Result', Content(products))]_vars

C6_Witness ==
  /\ Computed
  /\ NoFilterActive
  /\ sortBy = "rating"
  /\ response.data = <<GoldRing, SilverBand>>
  /\ Result = <<SilverBand, GoldRing>>

\* C7: the result is ordered by sortBy: ratings non-increasing for
\* "rating", review counts non-increasing for "reviews", names
\* non-decreasing in the collation order for "name" and for any other value.
C7_Sorted ==
  Computed =>
    \A i \in 1..(Len(Result) - 1) :
      CASE sortBy = "rating" -> Result[i].rating >= Result[i + 1].rating
        [] sortBy = "reviews" -> Result[i].reviews >= Result[i + 1].reviews
        [] OTHER -> localeCompare(Result[i].name, Result[i + 1].name) <= 0

C7_Witness ==
  /\ Computed
  /\ sortBy = "price"
  /\ queue = NoUpdates
  /\ filteredProducts # products
  /\ rendered = <<GoldChain, GoldRing>>
  /\ Content(products) = <<GoldRing, GoldChain>>

\* C8: "Clear All Filters" is there only when the rendered list is empty;
\* it sets searchTerm to "", selectedCategory and selectedMetal to "all",
\* leaves sortBy and the stored product list alone; and after a failed
\* fetch the store is empty, so the list is still empty after the reset.
C8_ClearAll ==
  [][ClearAll =>
       /\ rendered = <<>>
       /\ Latest(queue'.searchTerm, searchTerm') = EmptyString
       /\ Latest(queue'.selectedCategory, selectedCategory') = ALL
       /\ Latest(queue'.selectedMetal, selectedMetal') = ALL
       /\ sortBy' = sortBy
       /\ products' = products
       /\ queue'.products = queue.products
       /\ Content(products)' = Content(products)
       /\ (FetchFailed =>
             compute(Content(Latest(queue.products, products)),
                     EmptyString, ALL, ALL, sortBy) = <<>>)]_vars

\* C9: whenever React has nothing left to do, the cards in the document are
\* compute(products, searchTerm, selectedCategory, selectedMetal, sortBy)
\* of the current state, in content and in order.
C9_ViewIsComputed ==
  Quiescent =>
    rendered = compute(Content(products), searchTerm, selectedCategory,
                       selectedMetal, sortBy)

\* C10: through the controls of the page searchTerm stays "", selectedMetal
\* stays "all", sortBy stays "name", and selectedCategory is one of the six
\* values of the category table.
C10_ReachableFilterState ==
  /\ searchTerm = EmptyString
  /\ selectedMetal = ALL
  /\ sortBy = "name"
  /\ selectedCategory \in categories

C10_Witness ==
  /\ selectedCategory = Earrings
  /\ queue.searchTerm = <<EmptyString>>
  /\ queue.selectedMetal = <<ALL>>
  /\ queue.selectedCategory = <<Bracelets>>
  /\ fetchState = "settled"

====
